---- MODULE Spec2Model ----
(***************************************************************************)
(* Shopify webhook proxy: the webhook relay and the administrative        *)
(* command proxy.  The repository holds three revisions of the server     *)
(* (src/index.js, src/unnamed/part_000, src/unnamed/part_001); the model  *)
(* runs one of them, named by rev, on one inbound request.                *)
(***************************************************************************)
EXTENDS Integers, Sequences, FiniteSets, TLC

VARIABLES
    rev,            \* which revision of the server is running
    env,            \* process.env as read at startup (immutable afterwards)
    pc,             \* position of the request's handler
    req,            \* the inbound request
    responses,      \* HTTP responses sent to the caller, in order
    upstreamCalls,  \* fetch calls issued to the Shopify Admin API, in order
    forwards,       \* fetch calls issued to the n8n endpoint, in order
    logs,           \* console.error lines, in order
    upstreamReply,  \* how the awaited upstream fetch settled, once it has
    peer,           \* a second request in flight in the same process: the
                    \* locals of its handler invocation while it is suspended
    forwardReply    \* how the awaited fetch to the n8n endpoint settled, once it has

vars == <<rev, env, pc, req, responses, upstreamCalls, forwards, logs, upstreamReply,
          peer, forwardReply>>

(***************************************************************************)
(* Bounds                                                                  *)
(***************************************************************************)
MaxBodyLen == 2

Revisions == {"index", "part_000", "part_001"}

(***************************************************************************)
(* JavaScript values: a type tag and the value's string form.              *)
(***************************************************************************)
Undefined == [t |-> "undefined", v |-> "undefined"]
Str(s) == [t |-> "string", v |-> s]
Num(s) == [t |-> "number", v |-> s]
Bool(s) == [t |-> "boolean", v |-> s]
Obj(s) == [t |-> "object", v |-> s]
Arr(s) == [t |-> "array", v |-> s]

\* JavaScript truthiness, as used by !x and x || y
Truthy(x) ==
    ~ \/ x.t = "undefined"
      \/ x.t = "null"
      \/ (x.t = "string" /\ x.v = "")
      \/ (x.t = "number" /\ x.v = "0")
      \/ (x.t = "boolean" /\ x.v = "false")

\* a || b
Or(a, b) == IF Truthy(a) THEN a ELSE b

\* a ?? b
Nullish(a, b) == IF a.t \in {"undefined", "null"} THEN b ELSE a

\* typeof x
TypeOf(x) == IF x.t \in {"array", "null"} THEN "object" ELSE x.t

\* mutant: the comparison with "true" made case-sensitive
ToLowerCase_Identity(s) == s

\* String(x).toLowerCase() on the strings the requests carry
ToLowerCase(s) ==
    CASE s = "TRUE" -> "true"
      [] s = "True" -> "true"
      [] OTHER -> s

(***************************************************************************)
(* HMAC-SHA256 and base64.  The digest is a keyed hash of the raw bytes,   *)
(* free of collisions on the bodies and keys of the model, written as a    *)
(* string of fixed width.                                                  *)
(***************************************************************************)
Bytes == {0, 1}

RECURSIVE SeqsUpTo(_)
SeqsUpTo(n) ==
    IF n = 0 THEN {<<>>}
    ELSE LET shorter == SeqsUpTo(n - 1)
         IN  shorter \cup {Append(s, b) : s \in {x \in shorter : Len(x) = n - 1}, b \in Bytes}

Bodies == SeqsUpTo(MaxBodyLen)

RECURSIVE HashFrom(_, _)
HashFrom(h, bytes) ==
    IF bytes = <<>> THEN h
    ELSE HashFrom(h * (Cardinality(Bytes) + 1) + Head(bytes) + 1, Tail(bytes))

RECURSIVE Pow(_, _)
Pow(b, n) == IF n = 0 THEN 1 ELSE b * Pow(b, n - 1)

\* crypto.createHmac("sha256", key).update(bytes)
Hmac(key, bytes) ==
    HashFrom(0, key) * Pow(Cardinality(Bytes) + 1, MaxBodyLen + 1) + HashFrom(0, bytes)

B64Digit(d) ==
    CASE d = 0 -> "A" [] d = 1 -> "B" [] d = 2 -> "C" [] d = 3 -> "D"

\* .digest("base64"): always the same number of characters
Base64(n) ==
    B64Digit((n \div 64) % 4) \o B64Digit((n \div 16) % 4)
        \o B64Digit((n \div 4) % 4) \o B64Digit(n % 4)

\* mutant: only the lengths are compared
TimingSafeEqual_LengthOnly(a, b) ==
    IF Len(a) # Len(b) THEN "throw" ELSE "true"

\* crypto.timingSafeEqual(Buffer.from(a), Buffer.from(b)):
\* throws a RangeError when the byte lengths differ
TimingSafeEqual(a, b) ==
    IF Len(a) # Len(b) THEN "throw"
    ELSE IF a = b THEN "true" ELSE "false"

(***************************************************************************)
(* Environment                                                             *)
(***************************************************************************)
NoSecret == [set |-> FALSE, key |-> <<>>]
Secrets == {NoSecret, [set |-> TRUE, key |-> <<>>], [set |-> TRUE, key |-> <<1>>]}

SecretTruthy(s) == s.set /\ s.key # <<>>

N8nUrl == "https://n8n.example/webhook/returns"

WebhookEnvs ==
    [SHOPIFY_WEBHOOK_SECRET : Secrets,
     N8N_RETURNS_WEBHOOK_URL : {Undefined, Str(N8nUrl)}]

CommandEnvs ==
    [SHOPIFY_ADMIN_ACCESS_TOKEN : {Undefined, Str("env-token")},
     SHOPIFY_SHOP_DOMAIN : {Undefined, Str("env-shop.myshopify.com")},
     SHOPIFY_API_VERSION : {Undefined, Str("2025-07")}]

Merge(w, c) ==
    [SHOPIFY_WEBHOOK_SECRET |-> w.SHOPIFY_WEBHOOK_SECRET,
     N8N_RETURNS_WEBHOOK_URL |-> w.N8N_RETURNS_WEBHOOK_URL,
     SHOPIFY_ADMIN_ACCESS_TOKEN |-> c.SHOPIFY_ADMIN_ACCESS_TOKEN,
     SHOPIFY_SHOP_DOMAIN |-> c.SHOPIFY_SHOP_DOMAIN,
     SHOPIFY_API_VERSION |-> c.SHOPIFY_API_VERSION]

Envs == {Merge(w, c) : w \in WebhookEnvs, c \in CommandEnvs}

SHOPIFY_WEBHOOK_SECRET == env.SHOPIFY_WEBHOOK_SECRET
N8N_RETURNS_WEBHOOK_URL == env.N8N_RETURNS_WEBHOOK_URL

(***************************************************************************)
(* Requests                                                                *)
(***************************************************************************)
NotCaptured == [captured |-> FALSE, bytes |-> <<>>]
RawBodies == {NotCaptured} \cup {[captured |-> TRUE, bytes |-> b] : b \in Bodies}

\* what a sender can put in x-shopify-hmac-sha256
HmacHeaders ==
    {Undefined, Str(""), Str("AB")}
        \cup {Str(Base64(Hmac(k, b))) : k \in {<<>>, <<1>>}, b \in Bodies}

NoRequest == [kind |-> "none"]

WebhookRequests ==
    [kind : {"webhook"}, hmac : HmacHeaders, rawBody : RawBodies]

Null == [t |-> "null", v |-> "null"]

\* body.fulfillment: an object whose line_items_by_fulfillment_order is an
\* array of items, each given by its fulfillment_order_id
LineItems(ids) == [t |-> "array", v |-> "", items |-> ids]
Fulfillment(loi) ==
    [t |-> "object", v |-> "[object Object]", line_items_by_fulfillment_order |-> loi]

Fulfillments ==
    {Undefined,
     Fulfillment(LineItems(<<Num("123")>>)),
     Fulfillment(LineItems(<<Str("123")>>)),
     Fulfillment(LineItems(<<>>))}

\* body.orderId and body.order_id
OrderInputs ==
    {[orderId |-> Undefined, order_id |-> Undefined],
     [orderId |-> Num("123"), order_id |-> Undefined],
     [orderId |-> Undefined, order_id |-> Str("456")]}

\* ?dryRun= and body.dryRun
DryRunInputs ==
    {[query |-> Undefined, body |-> Undefined],
     [query |-> Str("TRUE"), body |-> Undefined],
     [query |-> Str("false"), body |-> Undefined],
     [query |-> Undefined, body |-> Bool("true")],
     [query |-> Undefined, body |-> Str("true")]}

Refunds == {Undefined, Obj("[object Object]"), Arr("")}

Routes == {"refund", "calculate", "fulfillment"}

CommandRequest(route, hdr, tok, dom, bver, qver, ord, ref, dry, ful) ==
    [kind |-> "command",
     route |-> route,
     tokenHeader |-> hdr,
     body |-> [shopifyAccessToken |-> tok,
               shopDomain |-> dom,
               apiVersion |-> bver,
               orderId |-> ord.orderId,
               order_id |-> ord.order_id,
               refund |-> ref,
               dryRun |-> dry.body,
               fulfillment |-> ful],
     query |-> [apiVersion |-> qver, dryRun |-> dry.query]]

\* a refund request carries no fulfillment and a fulfillment request no refund
CommandRequests ==
    {CommandRequest(route, hdr, tok, dom, bver, qver, ord, ref, dry, Undefined) :
        route \in {"refund", "calculate"},
        hdr \in {Undefined, Str("header-token")},
        tok \in {Undefined, Str("body-token")},
        dom \in {Undefined, Str("req-shop.myshopify.com")},
        bver \in {Undefined, Str("2025-10")},
        qver \in {Undefined, Str("2025-04")},
        ord \in OrderInputs,
        ref \in Refunds,
        dry \in DryRunInputs}
    \cup
    {CommandRequest("fulfillment", hdr, tok, dom, bver, qver,
                    [orderId |-> Undefined, order_id |-> Undefined], Undefined, dry, ful) :
        hdr \in {Undefined, Str("header-token")},
        tok \in {Undefined, Str("body-token")},
        dom \in {Undefined, Str("req-shop.myshopify.com")},
        bver \in {Undefined, Str("2025-10")},
        qver \in {Undefined, Str("2025-04")},
        dry \in {d \in DryRunInputs : d.query # Str("false")},
        ful \in Fulfillments}

(***************************************************************************)
(* Signature verifier                                                      *)
(***************************************************************************)
\* "true", "false", or "throw" when an exception leaves the function
verifyShopifyHmac(r) ==
    LET hmac == r.hmac
    IN  IF ~Truthy(hmac) \/ ~r.rawBody.captured THEN "false"
        ELSE IF rev # "part_001" /\ ~SecretTruthy(SHOPIFY_WEBHOOK_SECRET) THEN "false"
        ELSE IF ~SHOPIFY_WEBHOOK_SECRET.set THEN "throw"  \* createHmac(.., undefined)
        ELSE LET digest == Base64(Hmac(SHOPIFY_WEBHOOK_SECRET.key, r.rawBody.bytes))
                 cmp == TimingSafeEqual(digest, hmac.v)
             IN  IF rev = "index" /\ cmp = "throw" THEN "false" ELSE cmp

(***************************************************************************)
(* Responses                                                               *)
(***************************************************************************)
Response(status, body) == [status |-> status, body |-> body]

InvalidHmac == Response(401, [kind |-> "text", text |-> "Invalid HMAC"])
Acknowledged == Response(200, [kind |-> "json", ok |-> TRUE])
InternalServerError == Response(500, [kind |-> "text", text |-> "Internal Server Error"])

\* An exception that leaves an async handler rejects its promise.  Express 4
\* leaves the request without a response; Express 5 hands the error to its
\* default error handler, which answers 500.
AfterUnhandledRejection ==
    {responses} \cup
        (IF responses = <<>> THEN {Append(responses, InternalServerError)} ELSE {})

(***************************************************************************)
(* Credential resolver                                                     *)
(***************************************************************************)
SHOPIFY_ADMIN_ACCESS_TOKEN == env.SHOPIFY_ADMIN_ACCESS_TOKEN

\* part_001 fixes the shop domain and the API version in the source
SHOPIFY_SHOP_DOMAIN ==
    IF rev = "part_001" THEN Str("311459-2.myshopify.com") ELSE env.SHOPIFY_SHOP_DOMAIN

SHOPIFY_API_VERSION ==
    IF rev = "part_001" THEN Str("2026-01")
    ELSE Or(env.SHOPIFY_API_VERSION, Str("2026-01"))

\* mutant: the environment fallback wins over the request
getShopifyAccessToken_EnvFirst(r) ==
    Or(Or(SHOPIFY_ADMIN_ACCESS_TOKEN, r.tokenHeader), r.body.shopifyAccessToken)

\* req.get is case-insensitive: both lookups read the same header
getShopifyAccessToken(r) ==
    LET tokenFromHeader == Or(r.tokenHeader, r.tokenHeader)
        tokenFromBody == r.body.shopifyAccessToken
    IN  Or(Or(tokenFromHeader, tokenFromBody), SHOPIFY_ADMIN_ACCESS_TOKEN)

getShopDomain(r) == Or(r.body.shopDomain, SHOPIFY_SHOP_DOMAIN)

getApiVersion(r) == Or(Or(r.body.apiVersion, r.query.apiVersion), SHOPIFY_API_VERSION)

\* the dryRun flag of the refund handlers
DryRunRequested(r) ==
    \/ ToLowerCase(Or(r.query.dryRun, Str("")).v) = "true"
    \/ r.body.dryRun = Bool("true")

(***************************************************************************)
(* Upstream relay client                                                   *)
(***************************************************************************)
AdminUrl(shopDomain, version, path) ==
    "https://" \o shopDomain.v \o "/admin/api/" \o version.v \o path

AdminCall_DefaultVersion(shopDomain, accessToken, path, body, apiVersion) ==
    [method |-> "POST",
     url |-> AdminUrl(shopDomain, SHOPIFY_API_VERSION, path),
     token |-> accessToken.v,
     body |-> body]

\* the fetch call of shopifyAdminRequest; index.js takes the version from
\* its caller, the earlier revisions from the process-wide constant
AdminCall(shopDomain, accessToken, path, body, apiVersion) ==
    LET version == IF rev = "index" THEN Or(apiVersion, SHOPIFY_API_VERSION)
                   ELSE SHOPIFY_API_VERSION
    IN  [method |-> "POST",
         url |-> AdminUrl(shopDomain, version, path),
         token |-> accessToken.v,
         body |-> body]

JsonTexts == {"{\"refund\":{}}", "{\"errors\":\"Not Found\"}"}

\* text ? JSON.parse(text) : {}, with { raw: text } when parsing throws
ParseBody(text) ==
    IF text = "" THEN [t |-> "object", v |-> "{}"]
    ELSE IF text = "null" THEN Null
    ELSE IF text \in JsonTexts THEN [t |-> "object", v |-> text]
    ELSE [t |-> "object", v |-> "raw", raw |-> text]

NotSettled == [settled |-> FALSE]

NoReply == [failed |-> TRUE]
Replies ==
    {NoReply,
     [failed |-> FALSE, status |-> 500, text |-> "null"],
     [failed |-> FALSE, status |-> 200, text |-> "{\"refund\":{}}"],
     [failed |-> FALSE, status |-> 201, text |-> ""],
     [failed |-> FALSE, status |-> 404, text |-> "{\"errors\":\"Not Found\"}"],
     [failed |-> FALSE, status |-> 422, text |-> "Unprocessable"],
     [failed |-> FALSE, status |-> 500, text |-> "upstream down"]}

ResponseOk(status) == status >= 200 /\ status <= 299

(***************************************************************************)
(* Command handlers: the synchronous part, up to the response or the       *)
(* awaited upstream call                                                   *)
(***************************************************************************)
Respond(status, body) == [type |-> "respond", response |-> Response(status, body)]
Call(c) == [type |-> "call", call |-> c]

BadRequest(msg) == Respond(400, [kind |-> "error", error |-> msg])

MissingTokenMessage ==
    "Missing Shopify access token. Provide header X-Shopify-Access-Token or body.shopifyAccessToken, or set SHOPIFY_ADMIN_ACCESS_TOKEN env var."

DryRunPreview(url, body) ==
    Respond(200,
        [kind |-> "dryRun", ok |-> TRUE, dryRun |-> TRUE,
         wouldCall |-> [method |-> "POST",
                        url |-> url,
                        headers |-> [XShopifyAccessToken |-> "*****",
                                     ContentType |-> "application/json",
                                     Accept |-> "application/json"],
                        body |-> body]])

RefundPath_AlwaysCreate(route, orderId) ==
    "/orders/" \o orderId \o "/refunds.json"

RefundPath(route, orderId) ==
    "/orders/" \o orderId \o
        (IF route = "calculate" THEN "/refunds/calculate.json" ELSE "/refunds.json")

RefundHandler_EchoToken(r) ==
    LET dryRun == DryRunRequested(r)
        shopDomain == getShopDomain(r)
        apiVersion == IF rev = "index" THEN getApiVersion(r) ELSE SHOPIFY_API_VERSION
        orderId == r.body.orderId
        refundObj == r.body.refund
        accessToken == getShopifyAccessToken(r)
        path == RefundPath(r.route, orderId.v)
        body == [refund |-> refundObj]
    IN  IF ~Truthy(shopDomain) THEN BadRequest("Missing shopDomain")
        ELSE IF ~Truthy(orderId) THEN BadRequest("Missing orderId")
        ELSE IF ~Truthy(refundObj) \/ TypeOf(refundObj) # "object"
             THEN BadRequest("Missing refund object at body.refund")
        ELSE IF ~Truthy(accessToken)
             THEN Respond(500, [kind |-> "error", error |-> MissingTokenMessage])
        ELSE IF dryRun
             THEN [DryRunPreview(AdminUrl(shopDomain, apiVersion, path), body)
                     EXCEPT !.response.body.wouldCall.headers.XShopifyAccessToken =
                                accessToken.v]
        ELSE Call(AdminCall(shopDomain, accessToken, path, body, apiVersion))

\* app.post("/shopify/refund") and app.post("/shopify/refund/calculate")
\* of index.js and part_000
RefundHandler(r) ==
    LET dryRun == DryRunRequested(r)
        shopDomain == getShopDomain(r)
        apiVersion == IF rev = "index" THEN getApiVersion(r) ELSE SHOPIFY_API_VERSION
        orderId == r.body.orderId
        refundObj == r.body.refund
        accessToken == getShopifyAccessToken(r)
        path == RefundPath(r.route, orderId.v)
        body == [refund |-> refundObj]
    IN  IF ~Truthy(shopDomain) THEN BadRequest("Missing shopDomain")
        ELSE IF ~Truthy(orderId) THEN BadRequest("Missing orderId")
        ELSE IF ~Truthy(refundObj) \/ TypeOf(refundObj) # "object"
             THEN BadRequest("Missing refund object at body.refund")
        ELSE IF ~Truthy(accessToken)
             THEN Respond(500, [kind |-> "error", error |-> MissingTokenMessage])
        ELSE IF dryRun
             THEN DryRunPreview(AdminUrl(shopDomain, apiVersion, path), body)
        ELSE Call(AdminCall(shopDomain, accessToken, path, body, apiVersion))

\* String(orderId).trim() and encodeURIComponent on the order ids of the model
Trim(s) == CASE s = " 456 " -> "456" [] OTHER -> s
EncodeURIComponent(s) == CASE s = "4/5" -> "4%2F5" [] OTHER -> s

\* parseOrderId of part_001: "" stands for null
parseOrderId(body) ==
    LET orderId == Nullish(body.order_id, body.orderId)
    IN  IF ~Truthy(orderId) \/ TypeOf(orderId) \notin {"number", "string"} THEN ""
        ELSE Trim(orderId.v)

\* the refund handlers of part_001
RefundHandlerV1(r) ==
    LET orderId == parseOrderId(r.body)
        refund == r.body.refund
    IN  IF ~Truthy(SHOPIFY_ADMIN_ACCESS_TOKEN)
        THEN Respond(500, [kind |-> "error",
                           error |-> "Missing env var SHOPIFY_ADMIN_ACCESS_TOKEN"])
        ELSE IF orderId = ""
        THEN BadRequest("Missing order_id (number/string) in request body. Provide order_id or orderId.")
        ELSE IF ~Truthy(refund) \/ TypeOf(refund) # "object" \/ refund.t = "array"
        THEN BadRequest("Missing refund object in request body. Provide { order_id, refund: { ... } }")
        ELSE Call(AdminCall(SHOPIFY_SHOP_DOMAIN, SHOPIFY_ADMIN_ACCESS_TOKEN,
                            RefundPath(r.route, EncodeURIComponent(orderId)),
                            [refund |-> refund], Undefined))

\* app.post("/shopify/fulfillments/create") of index.js and
\* app.post("/shopify/fulfillments") of part_000
FulfillmentHandler(r) ==
    LET shopDomain == getShopDomain(r)
        apiVersion == IF rev = "index" THEN getApiVersion(r) ELSE Undefined
        accessToken == getShopifyAccessToken(r)
        fulfillment == r.body.fulfillment
        loi == fulfillment.line_items_by_fulfillment_order
        fulfillmentOrderId == loi.items[1]
    IN  IF ~Truthy(shopDomain) THEN BadRequest("Missing shopDomain")
        ELSE IF ~Truthy(accessToken)
             THEN Respond(500, [kind |-> "error", error |-> MissingTokenMessage])
        ELSE IF ~Truthy(fulfillment) \/ TypeOf(fulfillment) # "object"
             THEN BadRequest(IF rev = "index"
                             THEN "Missing fulfillment object at body.fulfillment"
                             ELSE "Invalid body: missing fulfillment object at body.fulfillment")
        ELSE IF rev = "part_000" /\ (loi.t # "array" \/ Len(loi.items) = 0)
             THEN BadRequest("line_items_by_fulfillment_order must be a non-empty array.")
        ELSE IF rev = "part_000" /\ TypeOf(fulfillmentOrderId) # "number"
             THEN Respond(400, [kind |-> "error",
                                error |-> "fulfillment_order_id must be a NUMBER (not string).",
                                receivedType |-> TypeOf(fulfillmentOrderId),
                                receivedValue |-> fulfillmentOrderId])
        ELSE Call(AdminCall(shopDomain, accessToken, "/fulfillments.json",
                            [fulfillment |-> fulfillment], apiVersion))

\* part_001 registers no fulfillment route: Express answers 404
NotFound == Respond(404, [kind |-> "text", text |-> "Cannot POST"])

HandleCommand_FulfillmentDryRun(r) ==
    IF r.route = "fulfillment"
    THEN IF rev = "part_001" THEN NotFound
         ELSE LET step == FulfillmentHandler(r)
              IN  IF step.type = "call" /\ DryRunRequested(r)
                  THEN DryRunPreview(step.call.url, step.call.body)
                  ELSE step
    ELSE IF rev = "part_001" THEN RefundHandlerV1(r) ELSE RefundHandler(r)

HandleCommand(r) ==
    IF r.route = "fulfillment"
    THEN IF rev = "part_001" THEN NotFound ELSE FulfillmentHandler(r)
    ELSE IF rev = "part_001" THEN RefundHandlerV1(r) ELSE RefundHandler(r)

(***************************************************************************)
(* Command handlers: after the upstream call settles                       *)
(***************************************************************************)
RelayError_NoUrl(route, status, message, details, url) ==
    Response(status, [kind |-> "relayError", error |-> message, details |-> details,
                      url |-> "null"])

\* the catch block of the handlers of index.js and part_000
RelayError(route, status, message, details, url) ==
    LET base == [kind |-> "relayError", error |-> message, details |-> details]
        withUrl == [kind |-> "relayError", error |-> message, details |-> details,
                    url |-> url]
        withHint == [kind |-> "relayError", error |-> message, details |-> details,
                     url |-> url,
                     hint |-> IF status = 404
                              THEN "Shopify returned 404. Try sending apiVersion='2025-10' in the request body for this endpoint."
                              ELSE "null"]
    IN  Response(status,
            IF rev = "part_000" THEN base
            ELSE IF route = "fulfillment" THEN withHint ELSE withUrl)

RelayResult_Opaque(route, call, reply) ==
    IF reply.failed \/ ~ResponseOk(reply.status)
    THEN Response(500, [kind |-> "relayError", error |-> "Internal error",
                        details |-> Null, url |-> "null"])
    ELSE Response(200, [kind |-> "result", ok |-> TRUE, result |-> ParseBody(reply.text)])

\* the response after the reply of the upstream, index.js and part_000
RelayResult(route, call, reply) ==
    IF reply.failed
    THEN RelayError(route, 500, "request to " \o call.url \o " failed", Null, "null")
    ELSE IF ~ResponseOk(reply.status)
    THEN RelayError(route, reply.status,
                    "Shopify Admin API error " \o ToString(reply.status),
                    Or(ParseBody(reply.text), Null), call.url)
    ELSE Response(200, [kind |-> "result", ok |-> TRUE, result |-> ParseBody(reply.text)])

\* res.status(status).json(json) of part_001
RelayResultV1(reply) ==
    Response(reply.status, [kind |-> "upstream", json |-> ParseBody(reply.text)])

(***************************************************************************)
(* Initial state                                                           *)
(***************************************************************************)
\* the locals of a handler invocation that has not received its request yet
IdleContext ==
    [pc |-> "idle", req |-> NoRequest, responses |-> <<>>, upstreamCalls |-> <<>>,
     forwards |-> <<>>, upstreamReply |-> NotSettled, forwardReply |-> "pending"]

Init ==
    /\ peer = IdleContext
    /\ rev \in Revisions
    /\ env \in Envs
    /\ pc = "idle"
    /\ req = NoRequest
    /\ responses = <<>>
    /\ upstreamCalls = <<>>
    /\ forwards = <<>>
    /\ logs = <<>>
    /\ upstreamReply = NotSettled
    /\ forwardReply = "pending"

(***************************************************************************)
(* POST /shopify/webhooks                                                  *)
(***************************************************************************)
ReceiveWebhook ==
    /\ pc = "idle"
    /\ \E r \in WebhookRequests : req' = r
    /\ pc' = "verify"
    /\ UNCHANGED <<rev, env, responses, upstreamCalls, forwards, logs, upstreamReply, peer, forwardReply>>

\* mutant: the 401 is sent without returning
WebhookVerify_FallsThrough ==
    /\ pc = "verify"
    /\ LET verdict == verifyShopifyHmac(req)
       IN  \/ /\ verdict = "false"
              /\ responses' = Append(responses, InvalidHmac)
              /\ pc' = "forward"
           \/ /\ verdict = "throw"
              /\ responses' \in AfterUnhandledRejection
              /\ pc' = "crashed"
           \/ /\ verdict = "true"
              /\ responses' = responses
              /\ pc' = "ack"
    /\ UNCHANGED <<rev, env, req, upstreamCalls, forwards, logs, upstreamReply, peer, forwardReply>>

\* if (!verifyShopifyHmac(req)) return res.status(401).send("Invalid HMAC");
WebhookVerify ==
    /\ pc = "verify"
    /\ LET verdict == verifyShopifyHmac(req)
       IN  \/ /\ verdict = "false"
              /\ responses' = Append(responses, InvalidHmac)
              /\ pc' = "done"
           \/ /\ verdict = "throw"
              /\ responses' \in AfterUnhandledRejection
              /\ pc' = "crashed"
           \/ /\ verdict = "true"
              /\ responses' = responses
              /\ pc' = "ack"
    /\ UNCHANGED <<rev, env, req, upstreamCalls, forwards, logs, upstreamReply, peer, forwardReply>>

\* mutant: the acknowledgment is left for after the forward
WebhookAck_AfterForward ==
    /\ pc = "ack"
    /\ pc' = "forward"
    /\ UNCHANGED <<rev, env, req, responses, upstreamCalls, forwards, logs, upstreamReply, peer, forwardReply>>

\* res.status(200).json({ ok: true });
WebhookAck ==
    /\ pc = "ack"
    /\ responses' = Append(responses, Acknowledged)
    /\ pc' = "forward"
    /\ UNCHANGED <<rev, env, req, upstreamCalls, forwards, logs, upstreamReply, peer, forwardReply>>

\* the try block up to the await of fetch(N8N_RETURNS_WEBHOOK_URL, ...)
WebhookForward ==
    /\ pc = "forward"
    /\ IF ~Truthy(N8N_RETURNS_WEBHOOK_URL)
       THEN /\ logs' = Append(logs,
                   IF rev = "part_001" THEN "Failed to forward to n8n"
                   ELSE "Missing env var N8N_RETURNS_WEBHOOK_URL")
            /\ forwards' = forwards
            /\ pc' = "done"
       ELSE /\ forwards' = Append(forwards,
                   [url |-> N8N_RETURNS_WEBHOOK_URL.v, method |-> "POST"])
            /\ logs' = logs
            /\ pc' = "awaitForward"
    /\ UNCHANGED <<rev, env, req, responses, upstreamCalls, upstreamReply, peer, forwardReply>>

ForwardOutcomes == {"2xx", "non2xx", "rejected"}

\* mutant: a rejected forward is tried again
ForwardSettles_Retry ==
    /\ pc = "awaitForward"
    /\ \E outcome \in ForwardOutcomes :
          /\ forwardReply' = outcome
          /\ IF outcome = "rejected" /\ Len(forwards) < 2
             THEN /\ logs' = Append(logs, "Failed to forward to n8n")
                  /\ forwards' = Append(forwards, forwards[1])
                  /\ pc' = pc
             ELSE /\ logs' = logs
                  /\ forwards' = forwards
                  /\ pc' = "done"
    /\ UNCHANGED <<rev, env, req, responses, upstreamCalls, upstreamReply, peer>>

\* the awaited fetch settles; a forward that never completes takes no step
ForwardSettles ==
    /\ pc = "awaitForward"
    /\ \E outcome \in ForwardOutcomes :
          /\ forwardReply' = outcome
          /\ logs' = IF outcome = "rejected"
                     THEN Append(logs, "Failed to forward to n8n")
                     ELSE logs
    /\ pc' = "done"
    /\ UNCHANGED <<rev, env, req, responses, upstreamCalls, forwards, upstreamReply, peer>>

(***************************************************************************)
(* Command routes                                                          *)
(***************************************************************************)
ReceiveCommand ==
    /\ pc = "idle"
    /\ \E r \in CommandRequests : req' = r
    /\ pc' = "handle"
    /\ UNCHANGED <<rev, env, responses, upstreamCalls, forwards, logs, upstreamReply, peer, forwardReply>>

CommandHandle_CallsFirst ==
    /\ pc = "handle"
    /\ LET step == HandleCommand(req)
           eager == AdminCall(Or(getShopDomain(req), Str("")), Str(""), "", Undefined, Undefined)
       IN  IF step.type = "respond"
           THEN /\ responses' = Append(responses, step.response)
                /\ upstreamCalls' = Append(upstreamCalls, eager)
                /\ pc' = "done"
           ELSE /\ upstreamCalls' = Append(upstreamCalls, step.call)
                /\ responses' = responses
                /\ pc' = "awaitUpstream"
    /\ UNCHANGED <<rev, env, req, forwards, logs, upstreamReply, peer, forwardReply>>

\* the handler runs to its response or to the await of the upstream call
CommandHandle ==
    /\ pc = "handle"
    /\ LET step == HandleCommand(req)
       IN  IF step.type = "respond"
           THEN /\ responses' = Append(responses, step.response)
                /\ upstreamCalls' = upstreamCalls
                /\ pc' = "done"
           ELSE /\ upstreamCalls' = Append(upstreamCalls, step.call)
                /\ responses' = responses
                /\ pc' = "awaitUpstream"
    /\ UNCHANGED <<rev, env, req, forwards, logs, upstreamReply, peer, forwardReply>>

\* what the caller has received once the awaited fetch has settled with reply:
\* part_001 has no catch, index.js and part_000 answer from their catch block
SettledResponses(route, call, reply) ==
    IF rev = "part_001"
    THEN IF reply.failed THEN AfterUnhandledRejection
         ELSE {Append(responses, RelayResultV1(reply))}
    ELSE {Append(responses, RelayResult(route, call, reply))}

UpstreamSettles_Retry ==
    /\ pc = "awaitUpstream"
    /\ \E reply \in Replies :
          /\ upstreamReply' = reply
          /\ IF reply.failed /\ Len(upstreamCalls) < 2
             THEN /\ upstreamCalls' = Append(upstreamCalls, upstreamCalls[1])
                  /\ responses' = responses
                  /\ pc' = pc
             ELSE /\ upstreamCalls' = upstreamCalls
                  /\ responses' \in
                         SettledResponses(req.route, upstreamCalls[Len(upstreamCalls)], reply)
                  /\ pc' = IF rev = "part_001" /\ reply.failed THEN "crashed" ELSE "done"
    /\ UNCHANGED <<rev, env, req, forwards, logs, peer, forwardReply>>

\* the awaited fetch settles and the handler runs to its end
UpstreamSettles ==
    /\ pc = "awaitUpstream"
    /\ \E reply \in Replies :
          /\ upstreamReply' = reply
          /\ responses' \in
                 SettledResponses(req.route, upstreamCalls[Len(upstreamCalls)], reply)
          /\ pc' = IF rev = "part_001" /\ reply.failed THEN "crashed" ELSE "done"
    /\ UNCHANGED <<rev, env, req, upstreamCalls, forwards, logs, peer, forwardReply>>

(***************************************************************************)
(* Two requests in flight                                                  *)
(***************************************************************************)
\* the locals of the handler invocation that is running
Context ==
    [pc |-> pc, req |-> req, responses |-> responses, upstreamCalls |-> upstreamCalls,
     forwards |-> forwards, upstreamReply |-> upstreamReply,
     forwardReply |-> forwardReply]

Switch_SharedCalls ==
    /\ peer' = Context
    /\ pc' = peer.pc
    /\ req' = peer.req
    /\ responses' = peer.responses
    /\ upstreamCalls' = upstreamCalls
    /\ forwards' = peer.forwards
    /\ upstreamReply' = peer.upstreamReply
    /\ forwardReply' = peer.forwardReply
    /\ UNCHANGED <<rev, env, logs>>

\* the event loop leaves one handler invocation and runs the other: each
\* keeps its own req, res and locals; the constants read from process.env
\* and the console are the process's
Switch ==
    /\ peer' = Context
    /\ pc' = peer.pc
    /\ req' = peer.req
    /\ responses' = peer.responses
    /\ upstreamCalls' = peer.upstreamCalls
    /\ forwards' = peer.forwards
    /\ upstreamReply' = peer.upstreamReply
    /\ forwardReply' = peer.forwardReply
    /\ UNCHANGED <<rev, env, logs>>

\* the requests sent while another is in flight
ConcurrentRequests ==
    {r \in WebhookRequests :
        /\ r.rawBody.captured /\ Len(r.rawBody.bytes) = 1
        /\ r.hmac \in {Str("AB"), Str(Base64(Hmac(<<1>>, r.rawBody.bytes)))}}
    \cup
    {CommandRequest(route, hdr, Undefined, dom, Undefined, Undefined,
                    [orderId |-> ord, order_id |-> Undefined],
                    Obj("[object Object]"), dry, Undefined) :
        route \in {"refund", "calculate"},
        hdr \in {Undefined, Str("header-token")},
        dom \in {Undefined, Str("req-shop.myshopify.com")},
        ord \in {Undefined, Num("123")},
        dry \in {d \in DryRunInputs : d.query = Undefined /\ d.body # Str("true")}}
    \cup
    {CommandRequest("fulfillment", Str("header-token"), Undefined, Undefined,
                    Str("2025-10"), Undefined,
                    [orderId |-> Undefined, order_id |-> Undefined], Undefined,
                    [query |-> Undefined, body |-> Undefined],
                    Fulfillment(LineItems(<<Num("123")>>)))}

ReceiveConcurrent ==
    /\ pc = "idle"
    /\ \E r \in ConcurrentRequests :
          /\ req' = r
          /\ pc' = IF r.kind = "webhook" THEN "verify" ELSE "handle"
    /\ UNCHANGED <<rev, env, responses, upstreamCalls, forwards, logs, upstreamReply, peer, forwardReply>>

InitConcurrent ==
    /\ Init
    /\ rev = "index"
    /\ env.SHOPIFY_WEBHOOK_SECRET = [set |-> TRUE, key |-> <<1>>]
    /\ Truthy(env.SHOPIFY_ADMIN_ACCESS_TOKEN)
    /\ Truthy(env.SHOPIFY_SHOP_DOMAIN)
    /\ Truthy(env.SHOPIFY_API_VERSION)

NextConcurrent ==
    \/ ReceiveConcurrent
    \/ WebhookVerify
    \/ WebhookAck
    \/ WebhookForward
    \/ ForwardSettles
    \/ CommandHandle
    \/ UpstreamSettles
    \/ Switch

SpecConcurrent == InitConcurrent /\ [][NextConcurrent]_vars

Next ==
    \/ ReceiveWebhook
    \/ WebhookVerify
    \/ WebhookAck
    \/ WebhookForward
    \/ ForwardSettles
    \/ ReceiveCommand
    \/ CommandHandle
    \/ UpstreamSettles

Spec == Init /\ [][Next]_vars

\* the server of src/index.js alone
InitIndex == Init /\ rev = "index"
SpecIndex == InitIndex /\ [][Next]_vars

\* the server of part_001 alone, where every handler that can take a step
\* takes it: a pending outbound call eventually returns or fails
InitPart001 == Init /\ rev = "part_001"
FairSpecPart001 == InitPart001 /\ [][Next]_vars /\ WF_vars(Next)

(***************************************************************************)
(* Properties of the webhook route                                         *)
(***************************************************************************)
WebhookHandled == req.kind = "webhook" /\ pc \notin {"idle", "verify"}

Has200 == \E i \in 1..Len(responses) : responses[i].status = 200

\* C1: a webhook whose signature verification fails is answered 401 and the
\* handler ends there: no 200 acknowledgment is sent and no forward is made.
C1_RejectedWebhookNeverForwarded ==
    /\ (WebhookHandled /\ verifyShopifyHmac(req) = "false") =>
            /\ pc = "done"
            /\ responses = <<InvalidHmac>>
    /\ (WebhookHandled /\ verifyShopifyHmac(req) # "true") =>
            /\ ~Has200
            /\ forwards = <<>>
            /\ upstreamCalls = <<>>

C1_Witness ==
    /\ WebhookHandled
    /\ verifyShopifyHmac(req) = "false"
    /\ Truthy(req.hmac) /\ req.rawBody.captured /\ SecretTruthy(SHOPIFY_WEBHOOK_SECRET)
    /\ responses = <<InvalidHmac>>
    /\ pc = "done"

\* C2: for a verified webhook the 200 is sent before the forward is attempted,
\* and once sent the response stays as it is whatever the forward does.
C2_AckBeforeForward ==
    [][/\ (forwards' # forwards) => (responses = <<Acknowledged>>)
       /\ (req.kind = "webhook" /\ pc \in {"forward", "awaitForward", "done"}
              /\ verifyShopifyHmac(req) = "true")
            => (responses = <<Acknowledged>> /\ responses' = responses)]_vars

C2_Witness ==
    /\ req.kind = "webhook"
    /\ pc = "awaitForward"
    /\ Len(forwards) = 1
    /\ logs = <<>>
    /\ responses = <<Acknowledged>>

\* C3: at most one forward call is made for a webhook, whatever its outcome.
C3_AtMostOneForward == Len(forwards) <= 1

C3_Witness ==
    /\ pc = "done"
    /\ Len(forwards) = 1
    /\ logs = <<"Failed to forward to n8n">>

\* C4: the verifier returns false, and the webhook is answered 401 and neither
\* acknowledged nor forwarded, whenever the digest header is absent, the raw
\* body was not captured or no shared secret is configured.
C4_MissingInputsRejected ==
    (/\ WebhookHandled
     /\ \/ ~Truthy(req.hmac)
        \/ ~req.rawBody.captured
        \/ ~SecretTruthy(SHOPIFY_WEBHOOK_SECRET))
    => /\ verifyShopifyHmac(req) = "false"
       /\ responses = <<InvalidHmac>>
       /\ forwards = <<>>
       /\ pc = "done"

\* C5: an exception raised while comparing the computed digest with the
\* supplied header value yields verification failure: the request ends with
\* a 401, never with a propagated error or a missing response.
C5_ComparisonExceptionCaught ==
    (/\ WebhookHandled
     /\ Truthy(req.hmac) /\ req.rawBody.captured /\ SecretTruthy(SHOPIFY_WEBHOOK_SECRET)
     /\ TimingSafeEqual(
            Base64(Hmac(SHOPIFY_WEBHOOK_SECRET.key, req.rawBody.bytes)), req.hmac.v) = "throw")
    => /\ pc = "done"
       /\ responses = <<InvalidHmac>>

\* C6: with a configured secret, a captured raw body and a present header, the
\* webhook is accepted exactly when the header equals the base64 HMAC of the
\* raw body under the secret, and the same header with any other raw body is
\* not accepted.
Accepted ==
    \/ pc \in {"ack", "forward", "awaitForward"}
    \/ pc = "done" /\ responses = <<Acknowledged>>

C6_VerifiesExactlyTheDigest ==
    (/\ WebhookHandled
     /\ Truthy(req.hmac) /\ req.rawBody.captured /\ SecretTruthy(SHOPIFY_WEBHOOK_SECRET))
    => /\ Accepted <=>
            req.hmac.v = Base64(Hmac(SHOPIFY_WEBHOOK_SECRET.key, req.rawBody.bytes))
       /\ Accepted =>
            \A b \in Bodies \ {req.rawBody.bytes} :
                verifyShopifyHmac([req EXCEPT !.rawBody.bytes = b]) # "true"

C6_Witness ==
    /\ WebhookHandled
    /\ SecretTruthy(SHOPIFY_WEBHOOK_SECRET)
    /\ Len(req.rawBody.bytes) = MaxBodyLen
    /\ pc = "done"
    /\ responses = <<Acknowledged>>
    /\ Len(forwards) = 1

(***************************************************************************)
(* Properties of the command routes                                        *)
(***************************************************************************)
CommandHandled == req.kind = "command" /\ pc \notin {"idle", "handle"}

RefundRoute == req.route \in {"refund", "calculate"}

\* the strings from which the handlers build upstream URLs
ShopDomains ==
    {"req-shop.myshopify.com", "env-shop.myshopify.com", "311459-2.myshopify.com"}
ApiVersions == {"2026-01", "2025-07", "2025-10", "2025-04"}
ApiPaths ==
    {RefundPath(route, id) : route \in {"refund", "calculate"}, id \in {"123", "456"}}
        \cup {"/fulfillments.json"}

UrlHasHost(url, d) ==
    \E v \in ApiVersions, p \in ApiPaths : url = AdminUrl(Str(d), Str(v), p)
UrlHasVersion(url, v) ==
    \E d \in ShopDomains, p \in ApiPaths : url = AdminUrl(Str(d), Str(v), p)

IsDryRunPreview == Len(responses) = 1 /\ responses[1].body.kind = "dryRun"

\* what the request and the environment offer, read off the request itself
TokenOffered ==
    IF Truthy(req.tokenHeader) THEN req.tokenHeader
    ELSE IF Truthy(req.body.shopifyAccessToken) THEN req.body.shopifyAccessToken
    ELSE env.SHOPIFY_ADMIN_ACCESS_TOKEN

DomainOffered ==
    IF Truthy(req.body.shopDomain) THEN req.body.shopDomain ELSE SHOPIFY_SHOP_DOMAIN

VersionOverrides ==
    {x \in {req.body.apiVersion, req.query.apiVersion} : Truthy(x)}

\* the checks the handlers of index.js make before they look at the token
PassesChecksBeforeToken ==
    /\ Truthy(DomainOffered)
    /\ RefundRoute => /\ Truthy(req.body.orderId)
                      /\ req.body.refund.t \in {"object", "array"}

\* C7 as stated: the token used is header, else body, else environment, and
\* with none of the three the response is a 500 and no upstream call is made.
C7_AsStated ==
    CommandHandled =>
        /\ upstreamCalls # <<>> =>
               (Truthy(TokenOffered) /\ upstreamCalls[1].token = TokenOffered.v)
        /\ ~Truthy(TokenOffered) =>
               (upstreamCalls = <<>> /\ Len(responses) = 1 /\ responses[1].status = 500)

\* C7 amended: the token used is header, else body, else environment; with
\* none of the three no upstream call is made, and the response is the 500
\* when the request passes the checks made before the token check (shop
\* domain, and for refunds orderId and refund) and the 400 of the first
\* failing check otherwise.
C7_TokenPrecedence ==
    CommandHandled =>
        /\ upstreamCalls # <<>> =>
               (Truthy(TokenOffered) /\ upstreamCalls[1].token = TokenOffered.v)
        /\ ~Truthy(TokenOffered) =>
               /\ upstreamCalls = <<>>
               /\ pc = "done"
               /\ Len(responses) = 1
               /\ responses[1].status = (IF PassesChecksBeforeToken THEN 500 ELSE 400)

C7_Witness ==
    /\ CommandHandled
    /\ ~Truthy(req.tokenHeader)
    /\ Truthy(env.SHOPIFY_ADMIN_ACCESS_TOKEN)
    /\ Len(upstreamCalls) = 1
    /\ upstreamCalls[1].token = "body-token"

\* C8: the shop domain used is the per-request value if given, else the
\* process-wide default; with neither the response is a 400 and no upstream
\* call is made.
C8_ShopDomainPrecedence ==
    CommandHandled =>
        /\ upstreamCalls # <<>> =>
               (Truthy(DomainOffered) /\ UrlHasHost(upstreamCalls[1].url, DomainOffered.v))
        /\ IsDryRunPreview =>
               UrlHasHost(responses[1].body.wouldCall.url, DomainOffered.v)
        /\ ~Truthy(DomainOffered) =>
               /\ upstreamCalls = <<>>
               /\ Len(responses) = 1
               /\ responses[1].status = 400

\* C9: the API version in the upstream URL and in the dry-run preview URL is
\* the per-request override (body or query) when one is given, and the
\* process-wide default only when none is given.
VersionExpected(url) ==
    IF VersionOverrides = {} THEN UrlHasVersion(url, SHOPIFY_API_VERSION.v)
    ELSE \E x \in VersionOverrides : UrlHasVersion(url, x.v)

C9_ApiVersionPrecedence ==
    CommandHandled =>
        /\ upstreamCalls # <<>> => VersionExpected(upstreamCalls[1].url)
        /\ IsDryRunPreview => VersionExpected(responses[1].body.wouldCall.url)

\* C10: a valid refund or refund-calculate request that asks for a dry run
\* (?dryRun=true in any letter case, or body.dryRun true) is answered 200
\* with a wouldCall preview whose token is masked, and no upstream call is
\* made for it.
DryRunAsked ==
    \/ req.query.dryRun \in {Str("true"), Str("TRUE"), Str("True")}
    \/ req.body.dryRun = Bool("true")

ValidRefundRequest ==
    /\ RefundRoute
    /\ PassesChecksBeforeToken
    /\ Truthy(TokenOffered)

C10_DryRunMakesNoCall ==
    (CommandHandled /\ ValidRefundRequest /\ DryRunAsked) =>
        /\ pc = "done"
        /\ upstreamCalls = <<>>
        /\ Len(responses) = 1
        /\ responses[1].status = 200
        /\ responses[1].body.kind = "dryRun"
        /\ responses[1].body.wouldCall.headers.XShopifyAccessToken = "*****"

C10_Witness ==
    /\ CommandHandled
    /\ req.route = "refund"
    /\ req.query.dryRun = Str("TRUE")
    /\ req.tokenHeader = Str("header-token")
    /\ IsDryRunPreview
    /\ upstreamCalls = <<>>

\* the same request with or without its dry-run markers
WithoutDryRun(r) == [r EXCEPT !.body.dryRun = Undefined, !.query.dryRun = Undefined]
WithDryRun(r, d) == [r EXCEPT !.body.dryRun = d.body, !.query.dryRun = d.query]

\* a fulfillment request that passes every check of the handler of its revision
ValidFulfillmentRequest ==
    /\ req.route = "fulfillment"
    /\ rev # "part_001"
    /\ Truthy(DomainOffered)
    /\ Truthy(TokenOffered)
    /\ req.body.fulfillment.t = "object"
    /\ rev = "part_000" =>
           /\ Len(req.body.fulfillment.line_items_by_fulfillment_order.items) > 0
           /\ TypeOf(req.body.fulfillment.line_items_by_fulfillment_order.items[1]) = "number"

\* C11 as stated: a valid fulfillment request with dry run requested gets the
\* dry-run preview and makes no upstream call.
C11_AsStated ==
    (CommandHandled /\ ValidFulfillmentRequest /\ DryRunAsked) =>
        /\ IsDryRunPreview
        /\ upstreamCalls = <<>>

\* C11 amended: the fulfillment handler has no dry-run branch: it handles a
\* request exactly as it handles the same request without the dry-run markers,
\* and a valid fulfillment request with dry run requested makes its upstream
\* call and gets no preview.
C11_FulfillmentIgnoresDryRun ==
    (CommandHandled /\ req.route = "fulfillment" /\ rev # "part_001") =>
        /\ HandleCommand(req) = HandleCommand(WithoutDryRun(req))
        /\ ~IsDryRunPreview
        /\ (ValidFulfillmentRequest /\ DryRunAsked) =>
               /\ Len(upstreamCalls) = 1
               /\ upstreamCalls[1].url =
                      AdminUrl(DomainOffered,
                               IF rev = "index" /\ VersionOverrides # {}
                               THEN IF Truthy(req.body.apiVersion) THEN req.body.apiVersion
                                    ELSE req.query.apiVersion
                               ELSE SHOPIFY_API_VERSION,
                               "/fulfillments.json")

C11_Witness ==
    /\ CommandHandled
    /\ ValidFulfillmentRequest
    /\ req.query.dryRun = Str("TRUE")
    /\ pc = "done"
    /\ Len(upstreamCalls) = 1
    /\ Len(responses) = 1
    /\ responses[1].body.kind = "result"

\* C12: for a valid refund or refund-calculation request, the method, URL and
\* body of the dry-run preview are those of the call the relay client makes
\* for the same request without dry run, in both directions.
C12_PreviewMatchesLiveCall ==
    (CommandHandled /\ RefundRoute) =>
        /\ IsDryRunPreview =>
               LET live == HandleCommand(WithoutDryRun(req))
                   wouldCall == responses[1].body.wouldCall
               IN  /\ live.type = "call"
                   /\ live.call.method = wouldCall.method
                   /\ live.call.url = wouldCall.url
                   /\ live.call.body = wouldCall.body
        /\ upstreamCalls # <<>> =>
               \A d \in {x \in DryRunInputs : DryRunRequested(WithDryRun(req, x))} :
                   LET dry == HandleCommand(WithDryRun(req, d))
                   IN  /\ dry.type = "respond"
                       /\ dry.response.body.kind = "dryRun"
                       /\ dry.response.body.wouldCall.method = upstreamCalls[1].method
                       /\ dry.response.body.wouldCall.url = upstreamCalls[1].url
                       /\ dry.response.body.wouldCall.body = upstreamCalls[1].body

C12_Witness ==
    /\ CommandHandled
    /\ req.route = "calculate"
    /\ IsDryRunPreview
    /\ req.body.apiVersion = Str("2025-10")
    /\ UrlHasVersion(responses[1].body.wouldCall.url, "2025-10")
    /\ req.body.dryRun = Bool("true")

\* a response of the validation or of the credential check, sent by the
\* handler itself: 400, or the 500 of the missing access token
Rejected ==
    /\ Len(responses) >= 1
    /\ responses[1].body.kind = "error"
    /\ responses[1].status \in {400, 500}

\* C13: a command request rejected with a 400, or with the 500 of the missing
\* credential, is rejected with no upstream call made before the rejection
\* and none after it.
C13_RejectedBeforeAnyCall ==
    /\ (CommandHandled /\ Rejected) =>
            /\ pc = "done"
            /\ Len(responses) = 1
            /\ upstreamCalls = <<>>
            /\ upstreamReply = NotSettled
    /\ (CommandHandled /\ upstreamCalls # <<>>) =>
            /\ HandleCommand(req).type = "call"
            /\ ~Rejected

C13_Witness ==
    /\ CommandHandled
    /\ Rejected
    /\ responses[1].status = 500
    /\ Truthy(req.body.shopDomain)
    /\ pc = "done"
    /\ upstreamCalls = <<>>

\* C14: a fulfillment request with credentials available whose first
\* fulfillment_order_id is not a number (the string "123") is answered 400
\* with the received type and makes no upstream call; with a number (123) it
\* proceeds to the upstream call.
C14_NumericFulfillmentOrderId ==
    (/\ CommandHandled
     /\ req.route = "fulfillment"
     /\ rev # "part_001"
     /\ Truthy(DomainOffered)
     /\ Truthy(TokenOffered)
     /\ req.body.fulfillment.t = "object"
     /\ Len(req.body.fulfillment.line_items_by_fulfillment_order.items) > 0)
    => LET id == req.body.fulfillment.line_items_by_fulfillment_order.items[1]
       IN  IF TypeOf(id) = "number"
           THEN Len(upstreamCalls) = 1
           ELSE /\ upstreamCalls = <<>>
                /\ Len(responses) = 1
                /\ responses[1].status = 400
                /\ responses[1].body.receivedType = TypeOf(id)

Settled == upstreamReply # NotSettled

\* C15: once the upstream call of a request without dry run has settled, the
\* caller has one response: for a non-2xx reply the upstream status, the
\* upstream body (parsed JSON, or the raw text when it is not JSON) and the
\* exact URL that was called; for a 2xx reply a 200 with the parsed result;
\* for a failure that carries no upstream status a 500.
C15_RelayOutcome ==
    (CommandHandled /\ Settled) =>
        /\ pc = "done"
        /\ Len(upstreamCalls) = 1
        /\ Len(responses) = 1
        /\ LET reply == upstreamReply
               answer == responses[1]
           IN  IF reply.failed
               THEN /\ answer.status = 500
                    /\ answer.body.kind = "relayError"
               ELSE IF reply.status >= 200 /\ reply.status <= 299
               THEN /\ answer.status = 200
                    /\ answer.body.kind = "result"
                    /\ answer.body.ok
                    /\ answer.body.result = ParseBody(reply.text)
               ELSE /\ answer.status = reply.status
                    /\ answer.body.kind = "relayError"
                    /\ answer.body.url = upstreamCalls[1].url
                    /\ answer.body.details \in {ParseBody(reply.text), Null}
                    /\ reply.text \in JsonTexts => answer.body.details.v = reply.text
                    /\ reply.text \notin JsonTexts \cup {"", "null"} =>
                           answer.body.details.raw = reply.text

C15_Witness ==
    /\ CommandHandled
    /\ Settled
    /\ ~upstreamReply.failed
    /\ upstreamReply.status = 422
    /\ responses[1].status = 422
    /\ responses[1].body.details.raw = "Unprocessable"
    /\ responses[1].body.url = upstreamCalls[1].url

\* C16: when the awaited upstream call settles the caller gets a success
\* response exactly when the upstream answered 2xx, and the response to an
\* upstream that answered with a rejection (an upstream 500 included) is never
\* one that a call which did not reach the upstream can produce, nor the
\* other way round.
C16_ReachedVsUnreached ==
    [][(pc = "awaitUpstream" /\ pc' # pc) =>
          LET call == upstreamCalls[Len(upstreamCalls)]
              reply == upstreamReply'
              succeeded == ~reply.failed /\ ResponseOk(reply.status)
          IN  /\ Len(responses') <= 1
              /\ succeeded <=>
                     /\ Len(responses') = 1
                     /\ ResponseOk(responses'[1].status)
              /\ \A other \in Replies :
                     (/\ other.failed # reply.failed
                      /\ ~succeeded
                      /\ other.failed \/ ~ResponseOk(other.status))
                     => responses' \notin SettledResponses(req.route, call, other)]_vars

C16_Witness ==
    /\ CommandHandled
    /\ rev = "part_000"
    /\ Settled
    /\ ~upstreamReply.failed
    /\ upstreamReply.status = 500
    /\ upstreamReply.text = "null"
    /\ Len(responses) = 1
    /\ responses[1].status = 500
    /\ responses[1].body.details = Null

\* the refund endpoints of the Admin API
RefundEndpoint(route, id) ==
    IF route = "calculate" THEN "/orders/" \o id \o "/refunds/calculate.json"
    ELSE "/orders/" \o id \o "/refunds.json"

OtherRefundRoute(route) == IF route = "refund" THEN "calculate" ELSE "refund"

\* the URL of the other refund endpoint for the same shop, version and order
SwapEndpoint(url, route) ==
    LET matches == {m \in ShopDomains \X ApiVersions \X {"123", "456"} :
                      url = AdminUrl(Str(m[1]), Str(m[2]), RefundEndpoint(route, m[3]))}
        match == CHOOSE m \in matches : TRUE
    IN  IF matches = {} THEN "not an endpoint of the route"
        ELSE AdminUrl(Str(match[1]), Str(match[2]),
                      RefundEndpoint(OtherRefundRoute(route), match[3]))

\* C17: the calculation handler only calls /orders/{id}/refunds/calculate.json
\* and the creation handler only /orders/{id}/refunds.json; apart from that
\* target the two handlers treat the same request in the same way: same
\* rejection, same preview, same call, same relayed outcome.
C17_RefundRoutesDifferOnlyInTarget ==
    (CommandHandled /\ RefundRoute) =>
        LET own == HandleCommand(req)
            twin == HandleCommand([req EXCEPT !.route = OtherRefundRoute(req.route)])
        IN  /\ upstreamCalls # <<>> =>
                   \E d \in ShopDomains, v \in ApiVersions, id \in {"123", "456"} :
                       upstreamCalls[1].url =
                           AdminUrl(Str(d), Str(v), RefundEndpoint(req.route, id))
            /\ own.type = twin.type
            /\ (own.type = "respond" /\ own.response.body.kind # "dryRun") => twin = own
            /\ (own.type = "respond" /\ own.response.body.kind = "dryRun") =>
                   twin = [own EXCEPT !.response.body.wouldCall.url =
                                          SwapEndpoint(@, req.route)]
            /\ own.type = "call" =>
                   /\ twin.call = [own.call EXCEPT !.url = SwapEndpoint(@, req.route)]
                   /\ (Settled /\ ~upstreamReply.failed /\ ResponseOk(upstreamReply.status)) =>
                          responses =
                              <<RelayResult(OtherRefundRoute(req.route), twin.call,
                                            upstreamReply)>>
                   /\ (Settled /\ ~upstreamReply.failed /\ ~ResponseOk(upstreamReply.status)) =>
                          <<[responses[1] EXCEPT !.body.url = SwapEndpoint(@, req.route)]>> =
                              <<RelayResult(OtherRefundRoute(req.route), twin.call,
                                            upstreamReply)>>
                   /\ (Settled /\ upstreamReply.failed) =>
                          LET there == RelayResult(OtherRefundRoute(req.route), twin.call,
                                                   upstreamReply)
                          IN  /\ responses[1].status = there.status
                              /\ responses[1].body.details = there.body.details
                              /\ responses[1].body.url = there.body.url

C17_Witness ==
    /\ CommandHandled
    /\ req.route = "calculate"
    /\ Settled
    /\ ~upstreamReply.failed
    /\ upstreamReply.status = 404
    /\ upstreamCalls[1].url =
           AdminUrl(Str("req-shop.myshopify.com"), Str("2025-04"),
                    "/orders/123/refunds/calculate.json")
    /\ responses[1].body.url = upstreamCalls[1].url

\* C18: a refund or refund-calculation request that gives its order id only
\* as order_id, and is valid otherwise, is not rejected for a missing order
\* id and targets /orders/{order_id}/...
C18_OrderIdAliases ==
    (/\ CommandHandled
     /\ RefundRoute
     /\ ~Truthy(req.body.orderId)
     /\ req.body.order_id = Str("456")
     /\ req.body.refund.t = "object"
     /\ IF rev = "part_001" THEN Truthy(SHOPIFY_ADMIN_ACCESS_TOKEN)
        ELSE Truthy(DomainOffered) /\ Truthy(TokenOffered))
    => /\ ~Rejected
       /\ upstreamCalls # <<>> \/ IsDryRunPreview
       /\ upstreamCalls # <<>> =>
              \E d \in ShopDomains, v \in ApiVersions :
                  upstreamCalls[1].url =
                      AdminUrl(Str(d), Str(v), RefundEndpoint(req.route, "456"))
       /\ IsDryRunPreview =>
              \E d \in ShopDomains, v \in ApiVersions :
                  responses[1].body.wouldCall.url =
                      AdminUrl(Str(d), Str(v), RefundEndpoint(req.route, "456"))

\* the same request with every access token it carries replaced by another
\* non-empty value
Retoken(r) ==
    [r EXCEPT !.tokenHeader = IF Truthy(@) THEN Str("other-header-token") ELSE @,
              !.body.shopifyAccessToken = IF Truthy(@) THEN Str("other-body-token") ELSE @]

\* C19: the access token reaches neither a response nor a log: a request and
\* the same request with another token value get, under the same upstream
\* behaviour, the same response and the same log lines, their upstream calls
\* differ in the token header only, and the preview shows the token masked.
C19_TokenNeverEchoed ==
    CommandHandled =>
        LET own == HandleCommand(req)
            alt == HandleCommand(Retoken(req))
        IN  /\ logs = <<>>
            /\ own.type = "respond" =>
                   /\ alt = own
                   /\ responses = <<own.response>>
            /\ IsDryRunPreview =>
                   responses[1].body.wouldCall.headers.XShopifyAccessToken = "*****"
            /\ own.type = "call" =>
                   /\ upstreamCalls = <<own.call>>
                   /\ alt.type = "call"
                   /\ [alt.call EXCEPT !.token = own.call.token] = own.call
                   /\ Settled => responses = <<RelayResult(req.route, alt.call, upstreamReply)>>

C19_Witness ==
    /\ CommandHandled
    /\ req.tokenHeader = Str("header-token")
    /\ req.body.shopifyAccessToken = Str("body-token")
    /\ HandleCommand(Retoken(req)).type = "call"
    /\ HandleCommand(Retoken(req)).call.token = "other-header-token"
    /\ upstreamCalls[1].token = "header-token"
    /\ Settled
    /\ ~upstreamReply.failed
    /\ upstreamReply.status = 422
    /\ Len(responses) = 1

\* the states a handler invocation goes through when its request is the only
\* one: what it has answered, called and forwarded is fixed by its own
\* request, the configuration and the reply to its own upstream call
SoloWebhook(c) ==
    LET verdict == verifyShopifyHmac(c.req)
        forward == [url |-> N8N_RETURNS_WEBHOOK_URL.v, method |-> "POST"]
    IN  /\ c.upstreamCalls = <<>>
        /\ c.upstreamReply = NotSettled
        /\ CASE c.pc = "verify" -> c.responses = <<>> /\ c.forwards = <<>>
             [] c.pc = "ack" ->
                    verdict = "true" /\ c.responses = <<>> /\ c.forwards = <<>>
             [] c.pc = "forward" ->
                    verdict = "true" /\ c.responses = <<Acknowledged>> /\ c.forwards = <<>>
             [] c.pc = "awaitForward" ->
                    /\ verdict = "true"
                    /\ c.responses = <<Acknowledged>>
                    /\ Truthy(N8N_RETURNS_WEBHOOK_URL)
                    /\ c.forwards = <<forward>>
             [] c.pc = "done" ->
                    IF verdict = "true"
                    THEN /\ c.responses = <<Acknowledged>>
                         /\ c.forwards =
                                IF Truthy(N8N_RETURNS_WEBHOOK_URL) THEN <<forward>> ELSE <<>>
                    ELSE /\ verdict = "false"
                         /\ c.responses = <<InvalidHmac>>
                         /\ c.forwards = <<>>
             [] OTHER -> FALSE

SoloCommand(c) ==
    LET step == HandleCommand(c.req)
    IN  /\ c.forwards = <<>>
        /\ CASE c.pc = "handle" ->
                    c.responses = <<>> /\ c.upstreamCalls = <<>> /\ c.upstreamReply = NotSettled
             [] c.pc = "awaitUpstream" ->
                    /\ step.type = "call"
                    /\ c.upstreamCalls = <<step.call>>
                    /\ c.responses = <<>>
                    /\ c.upstreamReply = NotSettled
             [] c.pc = "done" ->
                    IF step.type = "respond"
                    THEN /\ c.responses = <<step.response>>
                         /\ c.upstreamCalls = <<>>
                         /\ c.upstreamReply = NotSettled
                    ELSE /\ c.upstreamCalls = <<step.call>>
                         /\ c.upstreamReply \in Replies
                         /\ c.responses =
                                <<RelayResult(c.req.route, step.call, c.upstreamReply)>>
             [] OTHER -> FALSE

Solo(c) ==
    CASE c.req.kind = "webhook" -> SoloWebhook(c)
      [] c.req.kind = "command" -> SoloCommand(c)
      [] OTHER -> c = IdleContext

\* C20: with two requests in flight and their steps interleaved in any order,
\* each request answers, calls and forwards as it would alone, from its own
\* input, the configuration and the reply to its own call; a step of one
\* request leaves the other request's locals as they are, and no step writes
\* the configuration the requests share.
C20_RequestsDoNotInterfere ==
    [][/\ Solo(Context)'
       /\ Solo(peer)'
       /\ env' = env /\ rev' = rev
       /\ \/ peer' = peer
          \/ peer' = Context /\ Context' = peer]_vars

C20_Witness ==
    /\ req.kind = "command"
    /\ pc = "done"
    /\ Settled
    /\ upstreamReply.failed
    /\ peer.req.kind = "webhook"
    /\ peer.pc = "awaitForward"
    /\ logs = <<>>
    /\ Len(peer.forwards) = 1

\* a forward that did not deliver the webhook: no URL to send it to, a fetch
\* that rejected, or an answer outside 2xx
ForwardFailed ==
    \/ ~Truthy(N8N_RETURNS_WEBHOOK_URL)
    \/ forwardReply \in {"rejected", "non2xx"}

\* C21: when the forward of a verified webhook fails (downstream URL missing,
\* downstream unreachable, or downstream answering non-2xx) the handler
\* finishes, a log line has been written for the failure, and the response
\* is still the 200 sent before the forward.
C21_ForwardFailuresLogged ==
    (/\ req.kind = "webhook"
     /\ verifyShopifyHmac(req) = "true"
     /\ pc = "done"
     /\ ForwardFailed)
    => /\ responses = <<Acknowledged>>
       /\ Len(logs) = 1

\* the request lacks a field the handler of its route requires, or the field
\* has the wrong shape
FailsShapeValidation ==
    IF req.route = "fulfillment"
    THEN ~(Truthy(req.body.fulfillment) /\ TypeOf(req.body.fulfillment) = "object")
    ELSE \/ ~(Truthy(req.body.refund) /\ TypeOf(req.body.refund) = "object")
         \/ IF rev = "part_001" THEN parseOrderId(req.body) = ""
            ELSE ~Truthy(req.body.orderId)

NoTokenAvailable ==
    IF rev = "part_001" THEN ~Truthy(SHOPIFY_ADMIN_ACCESS_TOKEN) ELSE ~Truthy(TokenOffered)

\* C22: a request to the refund, refund-calculation or fulfillment handler
\* that fails shape validation and has no access token available is answered
\* with the 400, not with the 500 of the missing token.
C22_ValidationBeforeCredentials ==
    (/\ CommandHandled
     /\ req.route = "fulfillment" => rev # "part_001"
     /\ FailsShapeValidation
     /\ NoTokenAvailable)
    => /\ Len(responses) = 1
       /\ responses[1].status = 400
       /\ upstreamCalls = <<>>

\* C23: a command request makes at most one call to the Admin API, and none
\* after that call has settled, whether it settled with a 2xx, a non-2xx, a
\* body that is not JSON or a transport failure.
C23_AtMostOneUpstreamCall ==
    /\ Len(upstreamCalls) <= 1
    /\ Settled =>
           /\ Len(upstreamCalls) = 1
           /\ pc \in {"done", "crashed"}

C23_Witness ==
    /\ CommandHandled
    /\ Settled
    /\ upstreamReply.failed
    /\ rev = "index"
    /\ pc = "done"
    /\ Len(upstreamCalls) = 1
    /\ responses[1].status = 500

\* C24: a request never has more than one response, and every request that
\* was received gets its response once its outbound calls have returned or
\* failed.
C24_ExactlyOneResponse ==
    /\ [](Len(responses) <= 1)
    /\ (pc # "idle") ~> (Len(responses) = 1)

====
